---- MODULE Spec2Model ----
(***************************************************************************)
(* Model of patch_gfx1201.py: patch_aiter_for_gfx1201() and the __main__   *)
(* block.  A text is a sequence of lexemes; every lexeme is the literal    *)
(* piece of text it stands for, so that the strings of the script are the  *)
(* concatenation of the lexemes of the definition that models them.        *)
(* Substring tests, str.replace and re.sub work on lexeme sequences.       *)
(***************************************************************************)
EXTENDS Integers, Sequences, FiniteSets, TLC

\* Number of words an initial file content is built from.
MaxWords == 3
\* Number of successive invocations of the script.
MaxRuns == 2

----------------------------------------------------------------------------
\* Literals of the script

marker_dq == "\"gfx1201\""
marker_sq == "'gfx1201'"

\* pattern: GFX_MAP\s*=\s*\{  ...  \}
pattern_open == "GFX_MAP = {"
pattern_close == "}"

\* replacement, without the two group references
replacement == <<"    16: ", marker_dq, ",\n">>

branch_header == <<"elif gfx == ", marker_dq, ":">>

target_str == <<"elif gfx == ", "\"gfx950\"", ":", "\n        ", "return \"MI350\"">>

\* Variant: the new branch is put in front of the gfx950 branch
injection_before ==
    <<"elif gfx == ", marker_dq, ":", "\n        ",
      "return \"MI300\"  # Proxy for RDNA4 compatibility", "\n    ">>
    \o target_str

injection ==
    target_str \o <<"\n    ", "elif gfx == ", marker_dq, ":", "\n        ",
                    "return \"MI300\"  # Proxy for RDNA4 compatibility">>

err_str == <<"raise RuntimeError(\"Unsupported gfx\")">>

fallback_str == <<"return \"MI300\" # Fallback for gfx1201">>

----------------------------------------------------------------------------
\* File contents the script may find

\* The example dictionary of the target file
gfx_map_example == <<pattern_open, "\n    1: \"gfx900\",\n", pattern_close>>

\* The gfx950 branch with the return indented by four spaces only
anchor_indent4 == <<"elif gfx == ", "\"gfx950\"", ":", "\n    ", "return \"MI350\"">>

Words ==
    { gfx_map_example, <<pattern_open>>, <<pattern_close>>, <<marker_dq>>,
      <<marker_sq>>, replacement, branch_header, target_str, anchor_indent4,
      err_str }

RECURSIVE Texts(_)
Texts(n) ==
    IF n = 0 THEN { <<>> }
    ELSE LET shorter == Texts(n - 1)
         IN  shorter \cup { t \o w : t \in shorter, w \in Words }

----------------------------------------------------------------------------
\* String operations

\* sub in s
Contains(s, sub) ==
    \E i \in 1..(Len(s) - Len(sub) + 1) : SubSeq(s, i, i + Len(sub) - 1) = sub

\* Positions of lexeme x in s at or after position from
Positions(s, x, from) == { i \in from..Len(s) : s[i] = x }

Min(S) == CHOOSE m \in S : \A k \in S : m <= k

\* Variant: s.replace(old, new, 1)
Replace_first(s, old, new) ==
    LET at == { i \in 1..(Len(s) - Len(old) + 1) :
                  SubSeq(s, i, i + Len(old) - 1) = old }
    IN  IF at = {} THEN s
        ELSE SubSeq(s, 1, Min(at) - 1) \o new
             \o SubSeq(s, Min(at) + Len(old), Len(s))

\* s.replace(old, new): every non-overlapping occurrence, left to right
RECURSIVE Replace(_, _, _)
Replace(s, old, new) ==
    IF Len(s) < Len(old) THEN s
    ELSE IF SubSeq(s, 1, Len(old)) = old
         THEN new \o Replace(SubSeq(s, Len(old) + 1, Len(s)), old, new)
         ELSE <<Head(s)>> \o Replace(Tail(s), old, new)

\* re.sub(pattern, replacement, s, flags=re.DOTALL) from position from on:
\* the leftmost opening, then the nearest closing brace (.*? is lazy and,
\* with DOTALL, crosses newlines); repeated after each match (count=0).
RECURSIVE SubFrom(_, _)
SubFrom(s, from) ==
    LET opens == Positions(s, pattern_open, from)
    IN  IF opens = {} THEN SubSeq(s, from, Len(s))
        ELSE LET closes == Positions(s, pattern_close, Min(opens) + 1)
             IN  IF closes = {} THEN SubSeq(s, from, Len(s))
                 ELSE SubSeq(s, from, Min(closes) - 1) \o replacement
                      \o <<pattern_close>> \o SubFrom(s, Min(closes) + 1)

\* Variant: without re.DOTALL the dot stops at a newline, and a dictionary
\* body that spans lines does not match
re_sub_no_dotall(s) ==
    IF \E i \in 1..Len(s) : s[i] = "\n    1: \"gfx900\",\n" THEN s
    ELSE SubFrom(s, 1)

re_sub(s) == SubFrom(s, 1)

\* What a failed f.write(s) can leave in the truncated file
Prefixes(s) == { SubSeq(s, 1, n) : n \in 0..(Len(s) - 1) }

----------------------------------------------------------------------------
\* The two edits

\* if '"gfx1201"' not in content and "'gfx1201'" not in content
needs_map_entry(c) == ~Contains(c, <<marker_dq>>) /\ ~Contains(c, <<marker_sq>>)

\* content after edit 1
edit1(c) == IF needs_map_entry(c) THEN re_sub(c) ELSE c

\* edit 1 sets modified: if new_content != content
edit1_modified(c) == needs_map_entry(c) /\ re_sub(c) # c

\* Variant: the test looks for a header the injection never writes
needs_branch_always(c) == TRUE

\* if 'elif gfx == "gfx1201":' not in content
needs_branch(c) == ~Contains(c, branch_header)

\* Variant: the fallback replace runs after the anchored one, not instead
edit2_both(c) ==
    IF needs_branch(c)
    THEN Replace(Replace(c, target_str, injection), err_str, fallback_str)
    ELSE c

\* content after edit 2
edit2(c) ==
    IF needs_branch(c)
    THEN IF Contains(c, target_str)
         THEN Replace(c, target_str, injection)
         ELSE IF Contains(c, err_str)
              THEN Replace(c, err_str, fallback_str)
              ELSE c
    ELSE c

\* Variant: modified is set outside the test for the branch header
edit2_modified_unguarded(c) == Contains(c, target_str) \/ Contains(c, err_str)

\* edit 2 sets modified: in the branch of either replace
edit2_modified(c) ==
    needs_branch(c) /\ (Contains(c, target_str) \/ Contains(c, err_str))

\* Variant: the file is written whether or not an edit applied
write_needed_always(m) == TRUE

\* if modified
write_needed(m) == m

\* Variant: the return value is ignored
exit_code_always0(r) == 0

\* sys.exit(0) if the function returned True, sys.exit(1) otherwise
exit_code(r) == IF r = "true" THEN 0 ELSE 1

----------------------------------------------------------------------------
VARIABLES
    exists,    \* os.path.exists(path)
    file,      \* the content of the file at path
    pc,        \* position in the script
    content,   \* local variable content
    modified,  \* local variable modified
    raised,    \* the except clause was entered
    result,    \* return value of patch_aiter_for_gfx1201: "none" before it returns
    exitCode,  \* argument of sys.exit: -1 before the call
    reads,     \* open(path, "r") calls of this invocation
    writes,    \* open(path, "w") calls of this invocation
    original,  \* history: what f.read() returned in this invocation
    run,       \* number of the invocation
    prev       \* return value of the previous invocation

vars ==
    <<exists, file, pc, content, modified, raised, result, exitCode, reads,
      writes, original, run, prev>>

Init ==
    /\ exists \in BOOLEAN
    /\ file \in (IF exists THEN Texts(MaxWords) ELSE { <<>> })
    /\ pc = "start"
    /\ content = <<>>
    /\ modified = FALSE
    /\ raised = FALSE
    /\ result = "none"
    /\ exitCode = -1
    /\ reads = 0
    /\ writes = 0
    /\ original = <<>>
    /\ run = 1
    /\ prev = "none"

\* Variant: no existence test before the file is opened
CheckExists_unchecked ==
    /\ pc = "start"
    /\ pc' = "read"
    /\ UNCHANGED <<exists, file, content, modified, raised, result, exitCode,
                   reads, writes, original, run, prev>>

\* if not os.path.exists(path): return False
CheckExists ==
    /\ pc = "start"
    /\ IF exists
       THEN /\ pc' = "read"
            /\ UNCHANGED result
       ELSE /\ pc' = "returned"
            /\ result' = "false"
    /\ UNCHANGED <<exists, file, content, modified, raised, exitCode, reads,
                   writes, original, run, prev>>

\* with open(path, "r") as f: content = f.read(); modified = False
\* open or read may raise: the except clause returns False
Read ==
    /\ pc = "read"
    /\ reads' = reads + 1
    /\ \/ /\ exists
          /\ content' = file
          /\ original' = file
          /\ modified' = FALSE
          /\ pc' = "edit1"
          /\ UNCHANGED <<raised, result>>
       \/ /\ raised' = TRUE
          /\ result' = "false"
          /\ pc' = "returned"
          /\ UNCHANGED <<content, original, modified>>
    /\ UNCHANGED <<exists, file, exitCode, writes, run, prev>>

\* 1. Add gfx1201 to GFX_MAP if not present
Edit1 ==
    /\ pc = "edit1"
    /\ content' = edit1(content)
    /\ modified' = (modified \/ edit1_modified(content))
    /\ pc' = "edit2"
    /\ UNCHANGED <<exists, file, raised, result, exitCode, reads, writes,
                   original, run, prev>>

\* 2. Patch get_device_name to avoid RuntimeError
Edit2 ==
    /\ pc = "edit2"
    /\ content' = edit2(content)
    /\ modified' = (modified \/ edit2_modified(content))
    /\ pc' = "save"
    /\ UNCHANGED <<exists, file, raised, result, exitCode, reads, writes,
                   original, run, prev>>

\* if modified: with open(path, "w") as f: f.write(content); return True
\* else: return True
\* open(path, "w") may raise, leaving the file as it was; once it has
\* truncated the file, a failing write leaves a part of content behind.
Save ==
    /\ pc = "save"
    /\ IF write_needed(modified)
       THEN /\ writes' = writes + 1
            /\ \/ /\ file' = content
                  /\ exists' = TRUE
                  /\ result' = "true"
                  /\ UNCHANGED raised
               \/ /\ raised' = TRUE
                  /\ result' = "false"
                  /\ UNCHANGED <<exists, file>>
               \/ /\ raised' = TRUE
                  /\ result' = "false"
                  /\ file' \in Prefixes(content)
                  /\ exists' = TRUE
       ELSE /\ result' = "true"
            /\ UNCHANGED <<exists, file, writes, raised>>
    /\ pc' = "returned"
    /\ UNCHANGED <<content, modified, exitCode, reads, original, run, prev>>

\* if patch_aiter_for_gfx1201(): sys.exit(0) else: sys.exit(1)
Exit ==
    /\ pc = "returned"
    /\ exitCode' = exit_code(result)
    /\ pc' = "exited"
    /\ UNCHANGED <<exists, file, content, modified, raised, result, reads,
                   writes, original, run, prev>>

\* The script is invoked again: a new process, the file as the last one left it
Rerun ==
    /\ pc = "exited"
    /\ run < MaxRuns
    /\ run' = run + 1
    /\ prev' = result
    /\ pc' = "start"
    /\ content' = <<>>
    /\ modified' = FALSE
    /\ raised' = FALSE
    /\ result' = "none"
    /\ exitCode' = -1
    /\ reads' = 0
    /\ writes' = 0
    /\ original' = <<>>
    /\ UNCHANGED <<exists, file>>

Next ==
    \/ CheckExists
    \/ Read
    \/ Edit1
    \/ Edit2
    \/ Save
    \/ Exit
    \/ Rerun

Spec == Init /\ [][Next]_vars

----------------------------------------------------------------------------
\* Vocabulary of the properties

Returned == pc \in {"returned", "exited"}

\* f.read() returned in this invocation
ReadOk ==
    \/ pc \in {"edit1", "edit2", "save"}
    \/ Returned /\ reads = 1 /\ (writes = 1 \/ ~raised)

\* A GFX_MAP = { ... } literal
HasMapLiteral(s) ==
    \E i \in 1..Len(s) : \E j \in (i + 1)..Len(s) :
        s[i] = pattern_open /\ s[j] = pattern_close

\* An entry with a numeric key for "gfx1201"
HasMapEntry(s) == Contains(s, <<"    16: ", marker_dq>>)

\* Number of occurrences of sub in s
Count(s, sub) ==
    Cardinality({ i \in 1..(Len(s) - Len(sub) + 1) :
                    SubSeq(s, i, i + Len(sub) - 1) = sub })

----------------------------------------------------------------------------
\* C1: idempotence.  An invocation that follows one that returned True (no
\* I/O failure) performs no write and changes nothing: the buffer it builds
\* and the file stay what the previous invocation left.
C1_Idempotent ==
    (run > 1 /\ prev = "true") =>
        /\ writes = 0
        /\ ~modified
        /\ ReadOk => (content = original /\ file = original)

\* The first invocation applied both edits and the second one has finished
C1_Witness ==
    /\ run = 2
    /\ prev = "true"
    /\ pc = "exited"
    /\ result = "true"
    /\ Contains(file, replacement)
    /\ Contains(file, injection)

\* C3: missing-file safety.  While the path does not exist the function
\* returns False at once: no open for reading, no open for writing, exit code
\* 1, and no step creates the file.
C3_MissingFile ==
    /\ [](~exists =>
            /\ reads = 0
            /\ writes = 0
            /\ ~raised
            /\ pc \in {"start", "returned", "exited"}
            /\ (Returned => result = "false")
            /\ (pc = "exited" => exitCode = 1))
    /\ [][~exists => ~exists']_vars

C3_Witness == ~exists /\ pc = "exited" /\ exitCode = 1 /\ result = "false"

\* C4: no-op when already patched.  When the content read holds the gfx1201
\* map entry and the gfx1201 branch header, the function returns True, opens
\* nothing for writing and the file is what was read, also when the content
\* holds the gfx950 block or the raise statement.
C4_NoOpWhenPatched ==
    (Returned /\ ReadOk /\ HasMapEntry(original)
        /\ Contains(original, branch_header)) =>
        /\ result = "true"
        /\ writes = 0
        /\ file = original
        /\ content = original

\* A patched content that still holds the gfx950 block and the raise
C4_Witness ==
    /\ Returned
    /\ ReadOk
    /\ HasMapEntry(original)
    /\ Contains(original, branch_header)
    /\ Contains(original, target_str)
    /\ Contains(original, err_str)
    /\ result = "true"

\* C5: result mapping.  The function returns False exactly when the file is
\* missing or the except clause was entered, True otherwise (also when no
\* pattern matched and nothing was written); the exit code is 0 exactly
\* when it returned True, 1 otherwise.
C5_ResultMapping ==
    /\ Returned =>
        /\ result \in {"true", "false"}
        /\ result = "false" <=> (~exists \/ raised)
    /\ pc = "exited" =>
        /\ exitCode \in {0, 1}
        /\ exitCode = 0 <=> result = "true"
    /\ ~Returned => result = "none"
    /\ pc # "exited" => exitCode = -1

\* Neither edit found its pattern, nothing was written, exit code 0
C5_Witness ==
    /\ pc = "exited"
    /\ exitCode = 0
    /\ result = "true"
    /\ reads = 1
    /\ writes = 0
    /\ original # <<>>
    /\ needs_map_entry(original)
    /\ ~HasMapLiteral(original)
    /\ needs_branch(original)
    /\ ~Contains(original, target_str)
    /\ ~Contains(original, err_str)

\* C10: write-back discipline.  At most one open for reading and one for
\* writing per invocation; the write is the last step, after the read and
\* both edits; it happens exactly when the buffer differs from what was
\* read; a write that succeeds leaves the whole buffer in the file, and
\* with no write the file is what was read.
C10_WriteBack ==
    /\ reads <= 1
    /\ writes <= 1
    /\ writes = 1 => (reads = 1 /\ Returned)
    /\ pc \in {"edit1", "edit2", "save"} => file = original
    /\ (Returned /\ ReadOk) => (writes = 1 <=> content # original)
    /\ (Returned /\ writes = 1 /\ ~raised) => file = content
    /\ (Returned /\ ReadOk /\ writes = 0) => file = original

\* A write that succeeded
C10_Witness ==
    /\ pc = "returned"
    /\ writes = 1
    /\ ~raised
    /\ content # original
    /\ file = content

\* Neither quoted marker occurs in s
NoMarker(s) == \A i \in 1..Len(s) : s[i] \notin {marker_dq, marker_sq}

\* The branch for gfx1201 as it follows the gfx950 block
gfx1201_branch ==
    <<"\n    ", "elif gfx == ", marker_dq, ":", "\n        ",
      "return \"MI300\"  # Proxy for RDNA4 compatibility">>

\* s with the new line put before the first closing brace that follows the
\* first GFX_MAP opening, and nothing else changed
InsertedOnce(s) ==
    LET i == Min(Positions(s, pattern_open, 1))
        j == Min(Positions(s, pattern_close, i + 1))
    IN  SubSeq(s, 1, j - 1) \o <<"    16: ", marker_dq, ",\n">>
        \o SubSeq(s, j, Len(s))

\* s with every raise statement turned into the fallback return
RaiseReplaced(s) ==
    [i \in 1..Len(s) |->
        IF <<s[i]>> = err_str THEN fallback_str[1] ELSE s[i]]

\* C2 as stated: whenever the function returns True the file holds a map
\* entry for "gfx1201" and holds the gfx1201 branch or no raise statement,
\* whatever the initial content.
C2_Original ==
    (Returned /\ result = "true") =>
        /\ HasMapEntry(file)
        /\ Contains(file, branch_header) \/ ~Contains(file, err_str)

\* C2 amended: whenever the function returns True the file holds the
\* gfx1201 branch header or no raise statement; it holds the map entry when
\* the content read held it already or held neither quoted marker and a
\* GFX_MAP = { ... } literal.
C2_EndState ==
    (Returned /\ result = "true") =>
        /\ Contains(file, branch_header) \/ ~Contains(file, err_str)
        /\ (HasMapEntry(original)
               \/ (NoMarker(original) /\ HasMapLiteral(original)))
             => HasMapEntry(file)

\* The entry was inserted into a dictionary that spans lines, and saved
C2_Witness ==
    /\ Returned
    /\ result = "true"
    /\ writes = 1
    /\ NoMarker(original)
    /\ Contains(original, gfx_map_example)
    /\ HasMapEntry(file)

\* C6 as stated: with neither marker and a GFX_MAP = { ... } literal in the
\* content, edit 1 inserts the line once, before the first closing brace
\* after the first opening, and changes nothing else (a later GFX_MAP
\* literal included).
C6_Original ==
    (pc = "edit2" /\ NoMarker(original) /\ HasMapLiteral(original)) =>
        content = InsertedOnce(original)

\* C7 as stated: the gfx950 block with the return indented by four spaces
\* and no gfx1201 header in the content: afterwards the gfx1201 branch
\* follows the block.
C7_Original ==
    (Returned /\ result = "true" /\ Contains(original, anchor_indent4)
        /\ ~Contains(original, branch_header)) =>
        /\ Contains(file, anchor_indent4 \o gfx1201_branch)
        /\ Count(file, anchor_indent4) = Count(original, anchor_indent4)

\* C7 amended: the gfx950 block with the return indented by eight spaces
\* (the text of target_str) and no gfx1201 header in the content:
\* afterwards every such block is still there, each is followed at once by
\* the gfx1201 branch returning "MI300", and there is no other gfx1201
\* header; whether or not edit 1 matched.
C7_AnchorCase ==
    (Returned /\ result = "true" /\ Contains(original, target_str)
        /\ ~Contains(original, branch_header)) =>
        /\ Count(file, target_str) = Count(original, target_str)
        /\ Count(file, target_str \o gfx1201_branch) = Count(original, target_str)
        /\ Count(file, branch_header) = Count(original, target_str)

\* Both edits applied: the map entry and the branch after the gfx950 block
C7_Witness ==
    /\ Returned
    /\ result = "true"
    /\ Contains(original, target_str)
    /\ ~Contains(original, branch_header)
    /\ HasMapLiteral(original)
    /\ HasMapEntry(file)
    /\ Contains(file, target_str \o gfx1201_branch)

\* C8: fallback case.  The raise statement in the content, no gfx950 block
\* (target_str) and no gfx1201 header: afterwards every raise statement is
\* the fallback return, none remains in the file written, and edit 2
\* changed nothing else of the buffer edit 1 left.
C8_FallbackCase ==
    (Returned /\ result = "true" /\ Contains(original, err_str)
        /\ ~Contains(original, target_str)
        /\ ~Contains(original, branch_header)) =>
        /\ writes = 1
        /\ ~Contains(file, err_str)
        /\ Count(file, fallback_str)
             = Count(original, err_str) + Count(original, fallback_str)
        /\ file = RaiseReplaced(edit1(original))

\* Two raise statements were replaced
C8_Witness ==
    /\ Returned
    /\ result = "true"
    /\ Count(original, err_str) = 2
    /\ ~Contains(original, target_str)
    /\ ~Contains(original, branch_header)
    /\ Count(file, fallback_str) = 2

\* C9: exclusivity of the two strategies of edit 2.  With the gfx950 block
\* in the content the raise statements stay and no fallback return is
\* added; a fallback return is added only without the block, and then no
\* gfx1201 branch is added; with neither the block nor the raise, edit 2
\* leaves the buffer as edit 1 left it and the function returns True
\* unless the except clause was entered.
C9_Exclusive ==
    ((pc = "save" \/ Returned) /\ ReadOk) =>
        /\ Contains(original, target_str) =>
             /\ Count(content, err_str) = Count(original, err_str)
             /\ Count(content, fallback_str) = Count(original, fallback_str)
        /\ Count(content, fallback_str) > Count(original, fallback_str) =>
             /\ ~Contains(original, target_str)
             /\ Count(content, gfx1201_branch) = Count(original, gfx1201_branch)
        /\ (~Contains(original, target_str) /\ ~Contains(original, err_str)) =>
             /\ content = edit1(original)
             /\ (Returned /\ ~raised) => result = "true"

\* The block and the raise were both there: the branch went in, the raise stayed
C9_Witness ==
    /\ pc = "returned"
    /\ result = "true"
    /\ Contains(original, target_str)
    /\ Contains(original, err_str)
    /\ ~Contains(original, branch_header)
    /\ Contains(file, target_str \o gfx1201_branch)
    /\ Contains(file, err_str)

====
